---- MODULE Spec2Model ----
(***************************************************************************)
(* Model of cookiecutter/generate.py: context assembly                     *)
(* (generate_context), the render policy (copy_without_render), the        *)
(* templated-root contract (ensure_dir_is_templated) and the generation    *)
(* run (generate_files with generate_file and render_and_create_dir).      *)
(*                                                                         *)
(* Strings are sequences of one-character strings.  A template expression  *)
(* '{{cookiecutter.p}}' is written <<"{","{","p","}","}">>: the variable   *)
(* name between the delimiters is looked up in the 'cookiecutter'          *)
(* namespace of the context.  The character "0" stands for a NUL byte.     *)
(***************************************************************************)
EXTENDS Integers, Sequences, FiniteSets, TLC

(* ---------------------------- bounds ----------------------------------- *)
\* longest template-root directory name that is enumerated
MaxNameLen == 5

\* number of keys the declaration and the override layers draw from
MaxKeys == 2

\* longest path and longest pattern list given to copy_without_render
MaxPathLen == 3
MaxPatterns == 2

\* characters a template-root directory name is built from
NameChars == {"{", "}", "p"}

(* ------------------------- string helpers ------------------------------ *)
\* all strings over cs of length at most n
RECURSIVE StringsUpTo(_, _)
StringsUpTo(cs, n) ==
  IF n = 0 THEN {<<>>}
  ELSE LET shorter == StringsUpTo(cs, n - 1)
       IN  shorter \cup {Append(s, c) : s \in {t \in shorter : Len(t) = n - 1}, c \in cs}

\* Python's  sub in s  for strings
Contains(s, sub) ==
  \E i \in 1..(Len(s) - Len(sub) + 1) : SubSeq(s, i, i + Len(sub) - 1) = sub

StartsWith(s, pre) ==
  Len(s) >= Len(pre) /\ SubSeq(s, 1, Len(pre)) = pre

OPEN == <<"{", "{">>
CLOSE == <<"}", "}">>
SEP == <<"/">>

(* ------------------------------ paths ---------------------------------- *)
\* os.path.join(a, b)
os_path_join(a, b) ==
  IF b # <<>> /\ b[1] = "/" THEN b
  ELSE IF a = <<>> THEN b
  ELSE IF a[Len(a)] = "/" THEN a \o b
  ELSE a \o SEP \o b

\* the segments of a path: the maximal runs without "/"
RECURSIVE Segments(_, _, _)
Segments(s, i, cur) ==
  IF i > Len(s) THEN (IF cur = <<>> THEN <<>> ELSE <<cur>>)
  ELSE IF s[i] = "/"
       THEN (IF cur = <<>> THEN <<>> ELSE <<cur>>) \o Segments(s, i + 1, <<>>)
       ELSE Segments(s, i + 1, Append(cur, s[i]))

RECURSIVE JoinSegments(_)
JoinSegments(segs) ==
  IF segs = <<>> THEN <<>>
  ELSE IF Len(segs) = 1 THEN segs[1]
  ELSE segs[1] \o SEP \o JoinSegments(Tail(segs))

\* os.path.normpath(p): empty and '.' segments dropped, no trailing separator
normpath(p) ==
  LET segs == SelectSeq(Segments(p, 1, <<>>), LAMBDA g : g # <<".">>)
      body == JoinSegments(segs)
  IN  IF p # <<>> /\ p[1] = "/" THEN SEP \o body
      ELSE IF body = <<>> THEN <<".">> ELSE body

(* ----------------------- templating capability ------------------------- *)
\* position of the first CLOSE in s at or after i, 0 when there is none
RECURSIVE FindClose(_, _)
FindClose(s, i) ==
  IF i + 1 > Len(s) THEN 0
  ELSE IF s[i] = "}" /\ s[i + 1] = "}" THEN i
  ELSE FindClose(s, i + 1)

\* the value an expression prints: the variable's value, '' when undefined
ExprValue(expr, ns) ==
  IF Len(expr) = 1 /\ expr[1] \in DOMAIN ns /\ ns[expr[1]].t = "str"
  THEN ns[expr[1]].v
  ELSE <<>>

\* Template(s).render(**context): ok = FALSE is a TemplateSyntaxError
RECURSIVE Render(_, _)
Render(s, ns) ==
  IF s = <<>> THEN [ok |-> TRUE, out |-> <<>>]
  ELSE IF StartsWith(s, OPEN)
  THEN LET j == FindClose(s, 3)
       IN  IF j = 0 THEN [ok |-> FALSE, out |-> <<>>]
           ELSE LET expr == SubSeq(s, 3, j - 1)
                    rest == Render(SubSeq(s, j + 2, Len(s)), ns)
                IN  IF expr = <<>> \/ \E i \in 1..Len(expr) : expr[i] \in {"{", "}"}
                    THEN [ok |-> FALSE, out |-> <<>>]
                    ELSE [ok |-> rest.ok, out |-> ExprValue(expr, ns) \o rest.out]
  ELSE LET rest == Render(Tail(s), ns)
       IN  [ok |-> rest.ok, out |-> <<s[1]>> \o rest.out]

\* fnmatch.fnmatch(name, pat) with the wildcards * and ?
RECURSIVE fnmatch(_, _)
fnmatch(name, pat) ==
  IF pat = <<>> THEN name = <<>>
  ELSE IF pat[1] = "*"
       THEN fnmatch(name, Tail(pat)) \/ (name # <<>> /\ fnmatch(Tail(name), pat))
  ELSE IF name = <<>> THEN FALSE
  ELSE (pat[1] = "?" \/ pat[1] = name[1]) /\ fnmatch(Tail(name), Tail(pat))

\* binaryornot.check.is_binary: the content holds a NUL byte
is_binary(bytes) == \E i \in 1..Len(bytes) : bytes[i] = "0"

(* ------------------------------ context -------------------------------- *)
\* Python values: a string, a list of strings, a mapping, None, or SELF, a
\* reference to the mapping that holds it (context['cookiecutter'] = context)
Str(s) == [t |-> "str", v |-> s]
List(l) == [t |-> "list", v |-> l]
Map(m) == [t |-> "map", v |-> m]
NONE == [t |-> "none", v |-> <<>>]
SELF == [t |-> "self", v |-> <<>>]
EmptyDict == [k \in {} |-> NONE]

\* truth value of an optional mapping: None and {} are falsy
Truthy(x) == x.t = "map" /\ DOMAIN x.v # {}

\* dict.update as a deep merge: a nested mapping is merged, not replaced
dict_update_deep(d, other) ==
  [k \in DOMAIN d \cup DOMAIN other |->
     IF k \notin DOMAIN other THEN d[k]
     ELSE IF k \in DOMAIN d /\ d[k].t = "map" /\ other[k].t = "map"
     THEN Map([j \in DOMAIN d[k].v \cup DOMAIN other[k].v |->
                 IF j \in DOMAIN other[k].v THEN other[k].v[j] ELSE d[k].v[j]])
     ELSE other[k]]

\* dict.update(other)
dict_update(d, other) ==
  [k \in DOMAIN d \cup DOMAIN other |-> IF k \in DOMAIN other THEN other[k] ELSE d[k]]

\* generate_context: the loaded declaration, overridden by default_context,
\* then by extra_context
generate_context(loaded, default_ctx, extra_ctx) ==
  LET c1 == IF Truthy(default_ctx) THEN dict_update(loaded, default_ctx.v) ELSE loaded
  IN  IF Truthy(extra_ctx) THEN dict_update(c1, extra_ctx.v) ELSE c1

\* context or {}
ContextOrEmpty(c) == IF Truthy(c) THEN c.v ELSE EmptyDict

\* the wrap without its test: the key is assigned whether present or not
WrapContextAlways(d) ==
  [k \in DOMAIN d \cup {"cookiecutter"} |-> IF k = "cookiecutter" THEN SELF ELSE d[k]]

\* if 'cookiecutter' not in context: context['cookiecutter'] = context
WrapContext(d) ==
  IF "cookiecutter" \in DOMAIN d THEN d
  ELSE [k \in DOMAIN d \cup {"cookiecutter"} |-> IF k = "cookiecutter" THEN SELF ELSE d[k]]

\* context[k], following the reference a wrapped context holds to itself
GetItem(d, k) == IF d[k].t = "self" THEN d ELSE d[k].v

\* the mapping that template expressions read their variables from
Namespace(d) ==
  IF "cookiecutter" \in DOMAIN d /\ d["cookiecutter"].t \in {"self", "map"}
  THEN GetItem(d, "cookiecutter")
  ELSE EmptyDict

\* the loop returning after its first pattern, matched or not
CwrLoopFirstOnly(path, pats, i) ==
  IF i > Len(pats) THEN FALSE ELSE fnmatch(path, pats[i])

\* the for loop of copy_without_render, from pattern i on
RECURSIVE CwrLoop(_, _, _)
CwrLoop(path, pats, i) ==
  IF i > Len(pats) THEN FALSE
  ELSE IF fnmatch(path, pats[i]) THEN TRUE
  ELSE CwrLoop(path, pats, i + 1)

\* copy_without_render(path, context): a KeyError gives False
copy_without_render(path, d) ==
  IF "cookiecutter" \notin DOMAIN d THEN FALSE
  ELSE LET ns == GetItem(d, "cookiecutter")
       IN  IF "_copy_without_render" \notin DOMAIN ns THEN FALSE
           ELSE CwrLoop(path, ns["_copy_without_render"].v, 1)

\* ensure_dir_is_templated(dirname): FALSE raises NonTemplatedInputDirException
ensure_dir_is_templated(dirname) ==
  Contains(dirname, OPEN) /\ Contains(dirname, CLOSE)

(* --------------------------- template tree ----------------------------- *)
\* the repository's template directory, as os.walk('.') lists it:
\*   ./{{p}}/s/g   ./{{p}}/d/u   ./{{p}}/t   ./c/h   ./f   ./b   ./as
DOT == <<".">>
TP == <<"{", "{", "p", "}", "}">>

\* normpath(join(root, name)): the template-relative path of a child
RelPath(root, name) == normpath(os_path_join(root, name))

P_s == RelPath(TP, <<"s">>)
P_d == RelPath(TP, <<"d">>)
P_c == <<"c">>
F_f == <<"f">>
F_b == <<"b">>
F_as == <<"a", "s">>
F_t == RelPath(TP, <<"t">>)
F_g == RelPath(P_s, <<"g">>)
F_u == RelPath(P_d, <<"u">>)
F_h == RelPath(P_c, <<"h">>)

\* the sub-directory names os.walk lists for a directory
ListDirs(root) ==
  CASE normpath(root) = DOT -> <<TP, <<"c">>>>
    [] normpath(root) = TP -> << <<"s">>, <<"d">> >>
    [] OTHER -> <<>>

\* the file names os.walk lists for a directory
ListFiles(root) ==
  CASE normpath(root) = DOT -> << <<"f">>, <<"b">>, <<"a", "s">> >>
    [] normpath(root) = TP -> << <<"t">> >>
    [] normpath(root) = P_s -> << <<"g">> >>
    [] normpath(root) = P_d -> << <<"u">> >>
    [] normpath(root) = P_c -> << <<"h">> >>
    [] OTHER -> <<>>

RECURSIVE DirsUnder(_)
DirsUnder(root) ==
  {normpath(root)} \cup
  UNION {DirsUnder(RelPath(root, ListDirs(root)[i])) : i \in 1..Len(ListDirs(root))}

FilesUnder(root) ==
  UNION {{RelPath(d, ListFiles(d)[i]) : i \in 1..Len(ListFiles(d))} : d \in DirsUnder(root)}

TemplateDirs == DirsUnder(DOT) \ {DOT}
TemplateFiles == FilesUnder(DOT)

\* a file whose content may be chosen malformed: none (DOT), ./{{p}}/t or ./{{p}}/d/u
BadChoices == {DOT, F_t, F_u}
Malformed == <<"}", "}", "{", "{">>

\* the bytes of a template file; b is the file chosen malformed
FileBytes(path, b) ==
  IF path = b THEN Malformed
  ELSE CASE path = F_f -> TP \o <<"!">>
         [] path = F_b -> <<"0", "{", "{">>
         [] path = F_as -> TP
         [] path = F_t -> <<"p">>
         [] path = F_g -> TP
         [] path = F_u -> TP
         [] OTHER -> <<"h">>

\* the permission bits of a template file
FileMode(path) == IF path \in {F_as, F_b} THEN "rwx" ELSE "rw-"

(* ----------------------------- filesystem ------------------------------ *)
ROOT == <<"/">>
\* abspath(output_dir)
OutputDir == <<"/", "o">>

DirEntry == [kind |-> "dir", bytes |-> <<>>, mode |-> "rwx"]
FileEntry(bytes, mode) == [kind |-> "file", bytes |-> bytes, mode |-> mode]

\* the directories that exist before the run
InitialFs == [q \in {ROOT, OutputDir} |-> DirEntry]

\* the proper ancestors of an absolute path, and the path itself
PathAndAncestors(path) ==
  {path} \cup {SubSeq(path, 1, i - 1) : i \in {j \in 2..Len(path) : path[j] = "/"}}

\* os.path.dirname of an absolute normalised path
Parent(path) ==
  LET seps == {j \in 1..Len(path) : path[j] = "/"}
      last == CHOOSE j \in seps : \A k \in seps : k <= j
  IN  IF last = 1 THEN ROOT ELSE SubSeq(path, 1, last - 1)

FsPut(f, new) ==
  [q \in DOMAIN f \cup DOMAIN new |-> IF q \in DOMAIN new THEN new[q] ELSE f[q]]

\* make_sure_path_exists / os.makedirs: missing directories are created,
\* existing ones are left alone
makedirs(f, path) ==
  [q \in DOMAIN f \cup PathAndAncestors(path) |-> IF q \in DOMAIN f THEN f[q] ELSE DirEntry]

\* open(outfile, 'w') and shutil.copyfile need the parent directory
CanWrite(f, path) ==
  /\ Parent(path) \in DOMAIN f
  /\ f[Parent(path)].kind = "dir"
  /\ path \in DOMAIN f => f[path].kind = "file"

\* shutil.copytree(indir, outdir): the whole subtree, bytes and modes kept
copytree(f, indir, outdir, b) ==
  LET suffix(n) == SubSeq(n, Len(indir) + 1, Len(n))
      newdirs == [q \in {outdir \o suffix(n) : n \in DirsUnder(indir)} |-> DirEntry]
      newfiles == [q \in {outdir \o suffix(n) : n \in FilesUnder(indir)} |->
                     LET n == CHOOSE m \in FilesUnder(indir) : outdir \o suffix(m) = q
                     IN  FileEntry(FileBytes(n, b), FileMode(n))]
  IN  FsPut(FsPut(makedirs(f, outdir), newdirs), newfiles)

(* ------------------------------- state --------------------------------- *)
VARIABLES
  pc,               \* position of the run
  exc,              \* the exception that ended the run, "none" otherwise
  dirname,          \* unrendered_dir: the name of the template directory
  bad,              \* the template file whose content is malformed (DOT: none)
  context0,         \* the context argument generate_files was called with
  context,          \* the context of the run
  project_dir,      \* the project directory, once created
  fs,               \* the output filesystem: path -> entry
  cwd,              \* the process working directory
  saved,            \* the working directories the open work_in scopes restore
  stack,            \* directories os.walk has still to yield
  root,             \* the directory os.walk yielded last
  dirs,             \* the dirs list of the current level, after dirs[:] = ...
  iter,             \* the rest of the for loop that is running
  log,              \* the calls made so far, in order
  declared,         \* what load_context_from_file returned
  default_context,  \* generate_context's default_context
  extra_context,    \* generate_context's extra_context
  path,             \* copy_without_render's path
  matched           \* what copy_without_render returned

vars == <<pc, exc, dirname, bad, context0, context, project_dir, fs, cwd, saved,
          stack, root, dirs, iter, log, declared, default_context, extra_context,
          path, matched>>

ctxvars == <<context0, declared, default_context, extra_context, path, matched>>
runvars == <<exc, dirname, bad, project_dir, fs, cwd, saved, stack, root, dirs, iter, log>>
walkvars == <<stack, root, dirs, iter>>

X == Str(<<"x">>)
Patterns(l) == "_copy_without_render" :> List(l)

\* the context arguments generate_files is called with
ContextChoices ==
  { NONE,
    Map(EmptyDict),
    Map("p" :> X),
    Map(("p" :> X) @@ Patterns(<< <<"*", "s">> >>)),
    Map("cookiecutter" :> Map("p" :> X)),
    Map("cookiecutter" :> Map(("p" :> X) @@ Patterns(<< <<"c">>, <<"*", "s">> >>))),
    Map("cookiecutter" :> Map(("p" :> X) @@ Patterns(<< <<"b">>, <<"*", "d">> >>))) }

Event(op, arg, out, ok) == [op |-> op, arg |-> arg, out |-> out, ok |-> ok]

Init ==
  /\ pc = "start"
  /\ exc = "none"
  /\ dirname \in StringsUpTo(NameChars, MaxNameLen)
  /\ bad \in BadChoices
  /\ context0 \in ContextChoices
  /\ context = context0
  /\ project_dir = <<>>
  /\ fs = InitialFs
  /\ cwd = "cwd0"
  /\ saved = <<>>
  /\ stack = <<>>
  /\ root = <<>>
  /\ dirs = <<>>
  /\ iter = <<>>
  /\ log = <<>>
  /\ declared = EmptyDict
  /\ default_context = NONE
  /\ extra_context = NONE
  /\ path = <<>>
  /\ matched = FALSE

\* an exception leaves the function; inside a with block the scope is left first
Raise(e) ==
  /\ exc' = e
  /\ pc' = IF saved # <<>> THEN "unwind" ELSE "failed"

\* the variables a template expression reads
NS == Namespace(context.v)

(* --------------------- generate_files: before the walk ----------------- *)
\* lines 172-177: context = context or {}; ensure_dir_is_templated
CheckTemplated ==
  /\ pc = "start"
  /\ context' = Map(ContextOrEmpty(context))
  /\ IF ensure_dir_is_templated(dirname)
     THEN pc' = "wrap" /\ exc' = exc
     ELSE Raise("NonTemplatedInputDirException")
  /\ UNCHANGED <<dirname, bad, project_dir, fs, cwd, saved, walkvars, log, ctxvars>>

\* lines 178-179
Wrap ==
  /\ pc = "wrap"
  /\ context' = Map(WrapContext(context.v))
  /\ pc' = "mkroot"
  /\ UNCHANGED <<exc, dirname, bad, project_dir, fs, cwd, saved, walkvars, log, ctxvars>>

\* render_and_create_dir(dname, context, output_dir), lines 134-150; the call
\* is logged as op for the template path arg
render_and_create_dir(dname, op, arg, next) ==
  LET r == Render(dname, NS)
      dir_to_create == normpath(os_path_join(OutputDir, r.out))
  IN  IF ~r.ok
      THEN /\ Raise("TemplateSyntaxError")
           /\ fs' = fs
           /\ log' = Append(log, Event(op, arg, <<>>, FALSE))
      ELSE \/ /\ fs' = makedirs(fs, dir_to_create)
              /\ log' = Append(log, Event(op, arg, dir_to_create, TRUE))
              /\ pc' = next
              /\ exc' = exc
           \/ /\ Raise("OSError")
              /\ fs' = fs
              /\ log' = Append(log, Event(op, arg, dir_to_create, FALSE))

\* lines 180-190
CreateProjectDir ==
  /\ pc = "mkroot"
  /\ render_and_create_dir(dirname, "mkroot", dirname, "pre_enter")
  /\ project_dir' = IF pc' = "pre_enter" THEN log'[Len(log')].out ELSE project_dir
  /\ UNCHANGED <<dirname, bad, context, cwd, saved, walkvars, ctxvars>>

\* work_in(d).__enter__: the working directory is saved and changed
WorkInEnter(d) ==
  /\ saved' = <<cwd>> \o saved
  /\ cwd' = d

\* work_in(d).__exit__: the saved working directory is restored
WorkInExit ==
  /\ cwd' = Head(saved)
  /\ saved' = Tail(saved)

\* line 193
PreHookEnter ==
  /\ pc = "pre_enter"
  /\ WorkInEnter("repo_dir")
  /\ pc' = "pre_run"
  /\ UNCHANGED <<exc, dirname, bad, context, project_dir, fs, walkvars, log, ctxvars>>

\* run_hook(name, project_dir, context): the script succeeds or fails
RunHook(name, next) ==
  \E ok \in BOOLEAN :
    /\ log' = Append(log, Event("hook", name, project_dir, ok))
    /\ IF ok THEN pc' = next /\ exc' = exc ELSE Raise("FailedHookException")

\* line 194
PreHookRun ==
  /\ pc = "pre_run"
  /\ RunHook(<<"pre_gen_project">>, "pre_exit")
  /\ UNCHANGED <<dirname, bad, context, project_dir, fs, cwd, saved, walkvars, ctxvars>>

\* the end of the with block of lines 193-194
PreHookExit ==
  /\ pc = "pre_exit"
  /\ WorkInExit
  /\ pc' = "walk_enter"
  /\ UNCHANGED <<exc, dirname, bad, context, project_dir, fs, walkvars, log, ctxvars>>

(* ------------------------ generate_files: the walk --------------------- *)
\* lines 196-198 and the call of os.walk('.')
WalkEnter ==
  /\ pc = "walk_enter"
  /\ WorkInEnter("template_dir")
  /\ stack' = <<DOT>>
  /\ pc' = "walk"
  /\ UNCHANGED <<exc, dirname, bad, context, project_dir, fs, root, dirs, iter, log, ctxvars>>

\* the d of dirs, in order, that the policy does (copy = TRUE) or does not match
RECURSIVE Partition(_, _, _)
Partition(r, ds, copy) ==
  IF ds = <<>> THEN <<>>
  ELSE (IF copy_without_render(RelPath(r, Head(ds)), context.v) = copy
        THEN <<Head(ds)>> ELSE <<>>) \o Partition(r, Tail(ds), copy)

\* lines 200-215: os.walk yields the next directory; its dirs are partitioned
WalkNext ==
  /\ pc = "walk"
  /\ stack # <<>>
  /\ root' = Head(stack)
  /\ stack' = Tail(stack)
  /\ dirs' = ListDirs(Head(stack))
  /\ iter' = Partition(Head(stack), ListDirs(Head(stack)), TRUE)
  /\ log' = Append(log, Event("walk", normpath(Head(stack)), <<>>, TRUE))
  /\ pc' = "copy"
  /\ UNCHANGED <<exc, dirname, bad, context, project_dir, fs, cwd, saved, ctxvars>>

\* lines 217-224, one copy_dir
CopyDir ==
  /\ pc = "copy"
  /\ iter # <<>>
  /\ LET indir == RelPath(root, Head(iter))
         outdir == normpath(os_path_join(project_dir, indir))
     IN  \/ /\ outdir \notin DOMAIN fs
            /\ fs' = copytree(fs, indir, outdir, bad)
            /\ log' = Append(log, Event("copytree", indir, outdir, TRUE))
            /\ iter' = Tail(iter)
            /\ UNCHANGED <<pc, exc>>
         \/ /\ Raise("OSError")
            /\ log' = Append(log, Event("copytree", indir, outdir, FALSE))
            /\ UNCHANGED <<fs, iter>>
  /\ UNCHANGED <<dirname, bad, context, project_dir, cwd, saved, stack, root, dirs, ctxvars>>

\* the level without the assignment dirs[:] = render_dirs
CopyDoneKeepDirs ==
  /\ pc = "copy"
  /\ iter = <<>>
  /\ dirs' = dirs
  /\ iter' = dirs
  /\ pc' = "mkdirs"
  /\ UNCHANGED <<exc, dirname, bad, context, project_dir, fs, cwd, saved, stack, root, log, ctxvars>>

\* lines 228-229: dirs[:] = render_dirs, and the loop over dirs starts
CopyDone ==
  /\ pc = "copy"
  /\ iter = <<>>
  /\ dirs' = Partition(root, dirs, FALSE)
  /\ iter' = dirs'
  /\ pc' = "mkdirs"
  /\ UNCHANGED <<exc, dirname, bad, context, project_dir, fs, cwd, saved, stack, root, log, ctxvars>>

\* lines 229-231, one d of dirs
RenderDir ==
  /\ pc = "mkdirs"
  /\ iter # <<>>
  /\ render_and_create_dir(os_path_join(os_path_join(project_dir, root), Head(iter)),
                           "mkdir", RelPath(root, Head(iter)), "mkdirs")
  /\ iter' = IF pc' = "mkdirs" THEN Tail(iter) ELSE iter
  /\ UNCHANGED <<dirname, bad, context, project_dir, cwd, saved, stack, root, dirs, ctxvars>>

\* line 233: the loop over files starts
DirsDone ==
  /\ pc = "mkdirs"
  /\ iter = <<>>
  /\ iter' = ListFiles(root)
  /\ pc' = "files"
  /\ UNCHANGED <<exc, dirname, bad, context, project_dir, fs, cwd, saved, stack, root, dirs, log, ctxvars>>

\* shutil.copyfile(infile, outfile); shutil.copymode(infile, outfile)
CopyBytes(op, infile, outfile) ==
  \/ /\ CanWrite(fs, outfile)
     /\ fs' = FsPut(fs, outfile :> FileEntry(FileBytes(infile, bad), FileMode(infile)))
     /\ log' = Append(log, Event(op, infile, outfile, TRUE))
     /\ iter' = Tail(iter)
     /\ UNCHANGED <<pc, exc>>
  \/ /\ Raise("IOError")
     /\ log' = Append(log, Event(op, infile, outfile, FALSE))
     /\ UNCHANGED <<fs, iter>>

\* generate_file swallowing the syntax error of a file and returning
generate_file_swallow(infile) ==
  LET r == Render(infile, NS)
      outfile == os_path_join(project_dir, r.out)
      body == Render(FileBytes(infile, bad), NS)
  IN  IF ~r.ok
      THEN /\ Raise("TemplateSyntaxError")
           /\ UNCHANGED <<fs, iter, log>>
      ELSE IF is_binary(FileBytes(infile, bad))
      THEN CopyBytes("binary", infile, outfile)
      ELSE IF ~body.ok
      THEN /\ log' = Append(log, Event("template", infile, outfile, FALSE))
           /\ iter' = Tail(iter)
           /\ UNCHANGED <<fs, pc, exc>>
      ELSE \/ /\ CanWrite(fs, outfile)
              /\ fs' = FsPut(fs, outfile :> FileEntry(body.out, FileMode(infile)))
              /\ log' = Append(log, Event("template", infile, outfile, TRUE))
              /\ iter' = Tail(iter)
              /\ UNCHANGED <<pc, exc>>
           \/ /\ Raise("IOError")
              /\ log' = Append(log, Event("template", infile, outfile, FALSE))
              /\ UNCHANGED <<fs, iter>>

\* generate_file(project_dir, infile, context, env), lines 99-131
generate_file(infile) ==
  LET r == Render(infile, NS)
      outfile == os_path_join(project_dir, r.out)
      body == Render(FileBytes(infile, bad), NS)
  IN  IF ~r.ok
      THEN /\ Raise("TemplateSyntaxError")
           /\ UNCHANGED <<fs, iter, log>>
      ELSE IF is_binary(FileBytes(infile, bad))
      THEN CopyBytes("binary", infile, outfile)
      ELSE IF ~body.ok
      THEN /\ Raise("TemplateSyntaxError")
           /\ log' = Append(log, Event("template", infile, outfile, FALSE))
           /\ UNCHANGED <<fs, iter>>
      ELSE \/ /\ CanWrite(fs, outfile)
              /\ fs' = FsPut(fs, outfile :> FileEntry(body.out, FileMode(infile)))
              /\ log' = Append(log, Event("template", infile, outfile, TRUE))
              /\ iter' = Tail(iter)
              /\ UNCHANGED <<pc, exc>>
           \/ /\ Raise("IOError")
              /\ log' = Append(log, Event("template", infile, outfile, FALSE))
              /\ UNCHANGED <<fs, iter>>

\* the matched file without the continue of line 245: generate_file follows
CopyFileThenGenerate ==
  /\ pc = "files"
  /\ iter # <<>>
  /\ copy_without_render(RelPath(root, Head(iter)), context.v)
  /\ generate_file(RelPath(root, Head(iter)))
  /\ UNCHANGED <<dirname, bad, context, project_dir, cwd, saved, stack, root, dirs, ctxvars>>

\* lines 233-245: a file the policy matches; only its path is rendered
CopyFile ==
  /\ pc = "files"
  /\ iter # <<>>
  /\ LET infile == RelPath(root, Head(iter))
         r == Render(infile, NS)
     IN  /\ copy_without_render(infile, context.v)
         /\ IF ~r.ok
            THEN /\ Raise("TemplateSyntaxError")
                 /\ UNCHANGED <<fs, iter, log>>
            ELSE CopyBytes("copyfile", infile, os_path_join(project_dir, r.out))
  /\ UNCHANGED <<dirname, bad, context, project_dir, cwd, saved, stack, root, dirs, ctxvars>>

\* lines 233-235, 246-247: a file the policy does not match
GenerateFile ==
  /\ pc = "files"
  /\ iter # <<>>
  /\ ~copy_without_render(RelPath(root, Head(iter)), context.v)
  /\ generate_file(RelPath(root, Head(iter)))
  /\ UNCHANGED <<dirname, bad, context, project_dir, cwd, saved, stack, root, dirs, ctxvars>>

\* the j-th and later names of ds, each joined to r
RECURSIVE JoinAll(_, _)
JoinAll(r, ds) ==
  IF ds = <<>> THEN <<>> ELSE <<os_path_join(r, Head(ds))>> \o JoinAll(r, Tail(ds))

\* the level is finished: os.walk goes on with the dirs left in the list
FilesDone ==
  /\ pc = "files"
  /\ iter = <<>>
  /\ stack' = JoinAll(root, dirs) \o stack
  /\ pc' = "walk"
  /\ UNCHANGED <<exc, dirname, bad, context, project_dir, fs, cwd, saved, root, dirs, iter, log, ctxvars>>

\* the walk left before os.walk is exhausted
WalkExitEarly ==
  /\ pc = "walk"
  /\ WorkInExit
  /\ pc' = "post_enter"
  /\ UNCHANGED <<exc, dirname, bad, context, project_dir, fs, walkvars, log, ctxvars>>

\* os.walk is exhausted: the with block of line 196 ends
WalkExit ==
  /\ pc = "walk"
  /\ stack = <<>>
  /\ WorkInExit
  /\ pc' = "post_enter"
  /\ UNCHANGED <<exc, dirname, bad, context, project_dir, fs, walkvars, log, ctxvars>>

(* --------------------- generate_files: after the walk ------------------ *)
\* line 250
PostHookEnter ==
  /\ pc = "post_enter"
  /\ WorkInEnter("repo_dir")
  /\ pc' = "post_run"
  /\ UNCHANGED <<exc, dirname, bad, context, project_dir, fs, walkvars, log, ctxvars>>

\* line 251
PostHookRun ==
  /\ pc = "post_run"
  /\ RunHook(<<"post_gen_project">>, "post_exit")
  /\ UNCHANGED <<dirname, bad, context, project_dir, fs, cwd, saved, walkvars, ctxvars>>

\* the end of the with block of lines 250-251: generate_files returns
PostHookExit ==
  /\ pc = "post_exit"
  /\ WorkInExit
  /\ pc' = "done"
  /\ UNCHANGED <<exc, dirname, bad, context, project_dir, fs, walkvars, log, ctxvars>>

\* an exception leaving a block that changed directory without work_in
UnwindNoRestore ==
  /\ pc = "unwind"
  /\ saved' = <<>>
  /\ cwd' = cwd
  /\ pc' = "failed"
  /\ UNCHANGED <<exc, dirname, bad, context, project_dir, fs, walkvars, log, ctxvars>>

\* an exception leaves a with block: work_in restores the working directory
Unwind ==
  /\ pc = "unwind"
  /\ WorkInExit
  /\ pc' = IF saved' = <<>> THEN "failed" ELSE "unwind"
  /\ UNCHANGED <<exc, dirname, bad, context, project_dir, fs, walkvars, log, ctxvars>>

Next ==
  \/ CheckTemplated
  \/ Wrap
  \/ CreateProjectDir
  \/ PreHookEnter
  \/ PreHookRun
  \/ PreHookExit
  \/ WalkEnter
  \/ WalkNext
  \/ CopyDir
  \/ CopyDone
  \/ RenderDir
  \/ DirsDone
  \/ CopyFile
  \/ GenerateFile
  \/ FilesDone
  \/ WalkExit
  \/ PostHookEnter
  \/ PostHookRun
  \/ PostHookExit
  \/ Unwind

Spec == Init /\ [][Next]_vars

(* --------------------------- generate_context -------------------------- *)
KeyNames == <<"a", "b", "c", "d">>
CtxKeys == {KeyNames[i] : i \in 1..MaxKeys}
CtxValues == {Str(<<"1">>), Map("x" :> Str(<<"1">>)), Map("y" :> Str(<<"2">>))}
Dicts == UNION {[S -> CtxValues] : S \in SUBSET CtxKeys}

InitCtx ==
  /\ pc = "gc_call"
  /\ declared \in Dicts
  /\ default_context \in {NONE} \cup {Map(d) : d \in Dicts}
  /\ extra_context \in {NONE} \cup {Map(d) : d \in Dicts}
  /\ context0 = NONE
  /\ context = NONE
  /\ exc = "none"
  /\ dirname = <<>>
  /\ bad = DOT
  /\ project_dir = <<>>
  /\ fs = InitialFs
  /\ cwd = "cwd0"
  /\ saved = <<>>
  /\ stack = <<>>
  /\ root = <<>>
  /\ dirs = <<>>
  /\ iter = <<>>
  /\ log = <<>>
  /\ path = <<>>
  /\ matched = FALSE

\* lines 62-72: the merged context is returned
GenerateContext ==
  /\ pc = "gc_call"
  /\ context' = Map(generate_context(declared, default_context, extra_context))
  /\ pc' = "gc_done"
  /\ UNCHANGED <<runvars, ctxvars>>

NextCtx == GenerateContext

SpecCtx == InitCtx /\ [][NextCtx]_vars

(* -------------------------- copy_without_render ------------------------ *)
PathChars == {"a", "s", "/"}
\* the glob patterns a '_copy_without_render' sequence is drawn from
GlobPatterns ==
  { <<"*">>, <<"a">>, <<"?">>, <<"*", "s">>, <<"a", "*">>, <<"?", "/", "s">>,
    <<"*", "/", "*">>, <<"a", "?", "s">> }
PatternLists == UNION {[1..n -> GlobPatterns] : n \in 0..MaxPatterns}

\* contexts without the namespace, without the setting, with the setting in
\* the namespace, and flat contexts after the wrap of generate_files
PolicyContexts ==
  {Map(EmptyDict), Map("cookiecutter" :> Map(EmptyDict))}
  \cup {Map("cookiecutter" :> Map(Patterns(l))) : l \in PatternLists}
  \cup {Map(WrapContext(Patterns(l))) : l \in PatternLists}

InitPolicy ==
  /\ pc = "cwr_call"
  /\ path \in StringsUpTo(PathChars, MaxPathLen)
  /\ context \in PolicyContexts
  /\ context0 = context
  /\ matched = FALSE
  /\ declared = EmptyDict
  /\ default_context = NONE
  /\ extra_context = NONE
  /\ exc = "none"
  /\ dirname = <<>>
  /\ bad = DOT
  /\ project_dir = <<>>
  /\ fs = InitialFs
  /\ cwd = "cwd0"
  /\ saved = <<>>
  /\ stack = <<>>
  /\ root = <<>>
  /\ dirs = <<>>
  /\ iter = <<>>
  /\ log = <<>>

\* lines 40-47: copy_without_render returns
PolicyCall ==
  /\ pc = "cwr_call"
  /\ matched' = copy_without_render(path, context.v)
  /\ pc' = "cwr_done"
  /\ UNCHANGED <<runvars, context0, context, declared, default_context, extra_context, path>>

NextPolicy == PolicyCall

SpecPolicy == InitPolicy /\ [][NextPolicy]_vars

(* ============================== properties ============================= *)
\* the calls that generate or copy a file or a directory of the template
GenOps == {"mkdir", "copytree", "copyfile", "binary", "template"}
FileOps == {"copyfile", "binary", "template"}

\* n lies inside directory d
Inside(n, d) == StartsWith(n, d \o SEP)

\* the template directory that holds n, DOT at the top level
RelParent(n) ==
  LET seps == {j \in 1..Len(n) : n[j] = "/"}
  IN  IF seps = {} THEN DOT
      ELSE SubSeq(n, 1, (CHOOSE j \in seps : \A k \in seps : k <= j) - 1)

\* the last segment of n
BaseName(n) ==
  LET seps == {j \in 1..Len(n) : n[j] = "/"}
  IN  IF seps = {} THEN n
      ELSE SubSeq(n, (CHOOSE j \in seps : \A k \in seps : k <= j) + 1, Len(n))

\* the positions of the log holding a call of op for arg
Calls(op, arg) == {i \in 1..Len(log) : log[i].op = op /\ log[i].arg = arg}
HookCalls(name) == Calls("hook", <<name>>)
PRE == "pre_gen_project"
POST == "post_gen_project"

\* the name holds an open delimiter followed later by a close delimiter
HasDelimiterPair(name) ==
  \E i, j \in 1..(Len(name) - 1) :
    /\ j >= i + 2
    /\ SubSeq(name, i, i + 1) = OPEN
    /\ SubSeq(name, j, j + 1) = CLOSE

\* C1: a template root whose name holds no open delimiter followed by a
\* close delimiter makes the run fail with NonTemplatedInputDirException,
\* nothing created, no hook invoked, no file written; the root '{{p}}' passes.
NonTemplatedRootRejected ==
  /\ (pc # "start" /\ ~HasDelimiterPair(dirname)) =>
       /\ pc = "failed"
       /\ exc = "NonTemplatedInputDirException"
       /\ fs = InitialFs
       /\ log = <<>>
  /\ (pc # "start" /\ dirname = TP) => exc # "NonTemplatedInputDirException"

\* template file or directory n has been generated or copied by a successful
\* call among the first k of the log
Covered(n, k) ==
  \E j \in 1..k :
    /\ log[j].ok
    /\ \/ log[j].op \in GenOps /\ log[j].arg = n
       \/ log[j].op = "copytree" /\ Inside(n, log[j].arg)

\* C2: the pre_gen_project hook is invoked after the project directory is
\* created and before anything of the template is generated or copied, the
\* post_gen_project hook after everything of the walk is generated or copied;
\* each hook is invoked at most once and pre precedes post.
HooksBracketTheWalk ==
  /\ Cardinality(HookCalls(PRE)) <= 1
  /\ Cardinality(HookCalls(POST)) <= 1
  /\ pc = "pre_run" =>
       /\ project_dir \in DOMAIN fs
       /\ DOMAIN fs = DOMAIN InitialFs \cup PathAndAncestors(project_dir)
  /\ \A i \in HookCalls(PRE) :
       /\ \E j \in 1..(i - 1) : log[j].op = "mkroot" /\ log[j].ok
       /\ \A j \in 1..(i - 1) : log[j].op \notin GenOps
  /\ \A i \in HookCalls(POST) :
       /\ \E j \in HookCalls(PRE) : j < i
       /\ \A j \in (i + 1)..Len(log) : log[j].op \notin GenOps
       /\ \A n \in TemplateDirs \cup TemplateFiles : Covered(n, i - 1)

HooksBracketTheWalk_witness ==
  /\ pc = "done"
  /\ HookCalls(PRE) # {}
  /\ HookCalls(POST) # {}
  /\ \E i \in 1..Len(log) : log[i].op = "copytree"
  /\ \E i \in 1..Len(log) : log[i].op = "template"

\* C3, in every state: a failed call is the last call made and ends the run
AbortedAtFirstError ==
  /\ \A i \in 1..Len(log) : ~log[i].ok => (i = Len(log) /\ exc # "none")
  /\ exc # "none" => pc \in {"unwind", "failed"}

\* C3, in every step: a failing or failed run performs no further call and
\* changes no file; no step removes a path
NothingAfterError ==
  /\ exc' # "none" => fs' = fs
  /\ exc # "none" => (log' = log /\ exc' = exc)
  /\ \A q \in DOMAIN fs : q \in DOMAIN fs'

\* C3: the first fatal error aborts the run: no later step is performed (no
\* file or directory is generated after it, no post hook is invoked) and
\* nothing created before it is removed.
FirstErrorAborts == []AbortedAtFirstError /\ [][NothingAfterError]_vars

FirstErrorAborts_witness ==
  /\ pc = "failed"
  /\ exc = "TemplateSyntaxError"
  /\ HookCalls(POST) = {}
  /\ \E i \in 1..Len(log) :
       log[i].op = "template" /\ log[i].ok /\ log[i].out \in DOMAIN fs
  /\ \E i \in 1..Len(log) : log[i].op = "template" /\ ~log[i].ok

\* the template directories the policy matches
MatchedDirs == {d \in TemplateDirs : copy_without_render(d, context.v)}

\* C4: a child directory the policy matches is never descended into and
\* nothing inside it is handled by the walk; it is copied once as a unit;
\* every other directory the walk finds is descended into exactly once.
CopyDirsNeverDescended ==
  /\ \A i \in 1..Len(log) : \A d \in MatchedDirs :
       /\ log[i].op \in GenOps \cup {"walk"} => ~Inside(log[i].arg, d)
       /\ log[i].op \in {"walk", "mkdir"} => log[i].arg # d
  /\ \A d \in TemplateDirs :
       /\ Cardinality(Calls("copytree", d)) <= 1
       /\ Cardinality(Calls("walk", d)) <= 1
  /\ pc \in {"post_enter", "post_run", "post_exit", "done"} =>
       \A d \in TemplateDirs :
         IF \E m \in MatchedDirs : m = d \/ Inside(d, m)
         THEN Calls("walk", d) = {}
              /\ (d \in MatchedDirs /\ ~\E m \in MatchedDirs : Inside(d, m))
                   => Cardinality(Calls("copytree", d)) = 1
         ELSE Cardinality(Calls("walk", d)) = 1

CopyDirsNeverDescended_witness ==
  /\ pc = "post_enter"
  /\ Calls("copytree", P_s) # {}
  /\ Calls("walk", P_d) # {}
  /\ Calls("walk", P_s) = {}

\* C5: the contents of a file are passed to the templating capability only
\* if the policy does not match the file and the file is not binary; a
\* matched or binary file has only its path rendered and its bytes copied.
OnlyEligibleFilesRendered ==
  \A i \in 1..Len(log) :
    LET e == log[i]
        verbatim == \/ copy_without_render(e.arg, context.v)
                    \/ is_binary(FileBytes(e.arg, bad))
    IN  e.op \in FileOps =>
          /\ e.op = "template" => ~verbatim
          /\ verbatim =>
               /\ e.out = os_path_join(project_dir, Render(e.arg, NS).out)
               /\ e.ok => fs[e.out].bytes = FileBytes(e.arg, bad)

OnlyEligibleFilesRendered_witness ==
  /\ \E i \in 1..Len(log) : log[i].op = "binary" /\ log[i].ok /\ log[i].arg = F_b
  /\ \E i \in 1..Len(log) : log[i].op = "copyfile" /\ log[i].ok /\ log[i].arg = F_as
  /\ \E i \in 1..Len(log) : log[i].op = "template" /\ log[i].ok
  /\ \E q \in DOMAIN fs : fs[q].kind = "file" /\ fs[q].bytes = TP

\* layer x is given and has key k
HasKey(x, k) == x.t = "map" /\ k \in DOMAIN x.v

\* C6: the merged context takes each key's value from extra_context if it has
\* the key, else from default_context if it has the key, else from the
\* template declaration; a value is replaced whole.
MergePrecedence ==
  pc = "gc_done" =>
    /\ DOMAIN context.v =
         DOMAIN declared \cup {k \in CtxKeys : HasKey(default_context, k)}
                         \cup {k \in CtxKeys : HasKey(extra_context, k)}
    /\ \A k \in DOMAIN context.v :
         context.v[k] = IF HasKey(extra_context, k) THEN extra_context.v[k]
                        ELSE IF HasKey(default_context, k) THEN default_context.v[k]
                        ELSE declared[k]

MergePrecedence_witness ==
  /\ pc = "gc_done"
  /\ \E k \in DOMAIN declared :
       /\ HasKey(default_context, k)
       /\ HasKey(extra_context, k)
       /\ declared[k].t = "map"
       /\ default_context.v[k].t = "map"
       /\ extra_context.v[k].t = "map"
       /\ declared[k] # extra_context.v[k]
       /\ context.v[k] = extra_context.v[k]
  /\ \E k \in DOMAIN declared : ~HasKey(default_context, k) /\ ~HasKey(extra_context, k)

\* the lengths of the prefixes of name that the first i characters of glob
\* pat can match: * takes any piece, ? and a literal take one character
RECURSIVE MatchedPrefixes(_, _, _)
MatchedPrefixes(name, pat, i) ==
  IF i = 0 THEN {0}
  ELSE LET before == MatchedPrefixes(name, pat, i - 1)
       IN  IF pat[i] = "*"
           THEN {k \in 0..Len(name) : \E j \in before : j <= k}
           ELSE {j + 1 : j \in {k \in before : /\ k < Len(name)
                                                /\ pat[i] \in {"?", name[k + 1]}}}

\* glob pat matches the whole of name
GlobMatches(name, pat) == Len(name) \in MatchedPrefixes(name, pat, Len(pat))

\* the '_copy_without_render' sequence of the context, empty when absent
Setting(d) ==
  IF "cookiecutter" \in DOMAIN d /\ "_copy_without_render" \in DOMAIN GetItem(d, "cookiecutter")
  THEN GetItem(d, "cookiecutter")["_copy_without_render"].v
  ELSE <<>>

\* C7: copy_without_render returns true iff some glob of the context's
\* '_copy_without_render' sequence matches the whole path; without the
\* setting or the namespace it returns false.
PolicyIffSomeGlobMatches ==
  pc = "cwr_done" =>
    matched = \E i \in 1..Len(Setting(context.v)) : GlobMatches(path, Setting(context.v)[i])

PolicyIffSomeGlobMatches_witness ==
  /\ pc = "cwr_done"
  /\ matched
  /\ Len(Setting(context.v)) = 2
  /\ ~GlobMatches(path, Setting(context.v)[1])
  /\ Len(path) = 3
  /\ path[2] = "/"

\* the mapping generate_files starts from: context or {}
Given == ContextOrEmpty(context0)

\* the wrap of lines 178-179 has been applied
Wrapped == pc \notin {"start", "wrap"} /\ exc # "NonTemplatedInputDirException"

\* C8: a context without the key 'cookiecutter' is used with that key
\* mapping to the whole flat mapping, a second wrap changes nothing, and a
\* context that carries the key is left as given.
NamespaceShim ==
  Wrapped =>
    /\ "cookiecutter" \in DOMAIN context.v
    /\ "cookiecutter" \notin DOMAIN Given =>
         /\ DOMAIN context.v = DOMAIN Given \cup {"cookiecutter"}
         /\ \A k \in DOMAIN Given :
              /\ context.v[k] = Given[k]
              /\ GetItem(context.v, "cookiecutter")[k] = Given[k]
         /\ DOMAIN GetItem(context.v, "cookiecutter") = DOMAIN context.v
    /\ "cookiecutter" \in DOMAIN Given => context.v = Given
    /\ WrapContext(context.v) = context.v

NamespaceShim_witness ==
  /\ Wrapped
  /\ "cookiecutter" \notin DOMAIN Given
  /\ "_copy_without_render" \in DOMAIN Given
  /\ Setting(context.v) # <<>>

\* C9: the working directory is changed only inside one scope at a time
\* (repo_dir for the hooks, template_dir for the walk) and is the caller's
\* again between the scopes and on every exit, return or failure.
WorkingDirectoryScoped ==
  /\ Len(saved) <= 1
  /\ pc \in {"done", "failed"} => (cwd = "cwd0" /\ saved = <<>>)
  /\ pc \in {"start", "wrap", "mkroot", "pre_enter", "walk_enter", "post_enter"} =>
       (cwd = "cwd0" /\ saved = <<>>)
  /\ pc \in {"pre_run", "post_run"} => (cwd = "repo_dir" /\ saved = <<"cwd0">>)
  /\ pc \in {"walk", "copy", "mkdirs", "files"} =>
       (cwd = "template_dir" /\ saved = <<"cwd0">>)

WorkingDirectoryScoped_witness ==
  /\ pc = "failed"
  /\ cwd = "cwd0"
  /\ exc \in {"TemplateSyntaxError", "FailedHookException", "IOError"}
  /\ \E i \in 1..Len(log) : log[i].op \in FileOps \cup {"hook"} /\ ~log[i].ok

\* the output directory the parent of template directory n is generated into
ParentOutput(n) ==
  IF RelParent(n) = DOT THEN project_dir
  ELSE log[CHOOSE j \in 1..Len(log) : log[j].op = "mkdir" /\ log[j].arg = RelParent(n)].out

\* C10: a copied directory lands inside the rendered output directory of its
\* parent, where the parent's other sub-directories and files are generated.
CopyDirInParentOutput ==
  \A i \in 1..Len(log) :
    (log[i].op = "copytree" /\ log[i].ok) =>
      log[i].out = os_path_join(ParentOutput(log[i].arg), BaseName(log[i].arg))

====
